---------------------------- MODULE Spec2Model ----------------------------
(***************************************************************************)
(* CHIP-8 virtual machine of src/src/main.cc: the function run() and the   *)
(* helpers it calls (load, load_font, Display::set_pixels, Display::reset).*)
(*                                                                         *)
(* One iteration of run()'s while loop is a driver tick.  A tick passes    *)
(* through four positions of the loop body, held in the variable phase:    *)
(*   "fetch"  the loop guard, the halt test, the fetch and PC += 2,        *)
(*   "exec"   the switch on the fetched word (skipped while halted),       *)
(*   "poll"   the SDL_PollEvent loop,                                      *)
(*   "timers" the frame sleep and the sound and delay timer update.        *)
(* A state with phase = "fetch" is a driver-tick boundary.                 *)
(*                                                                         *)
(* An access outside an array is undefined behaviour: the model either     *)
(* ends the process (status "crashed") or lets it go on, a read yielding   *)
(* any byte of Garbage and a store being lost; wild and oob record it.     *)
(***************************************************************************)
EXTENDS Integers, Naturals, Sequences, FiniteSets, TLC

(***************************************************************************)
(* Program constants.                                                      *)
(***************************************************************************)
MAX_ADDR == 4096
WIDTH == 64
HEIGHT == 32
STACK_SIZE == 16
NUM_REGS == 16
NUM_KEYS == 16
program_base == 512
FRAME_DURATION == 2000
TIMER_TICK == 16700

U8(v) == (v + 256) % 256
U16(v) == (v + 65536) % 65536

(***************************************************************************)
(* Bounds of the model.                                                    *)
(***************************************************************************)
\* the driver presses and releases the keys 0 .. MaxKey
MaxKey == 1
\* the timer programs of the catalogue write the values 0 .. MaxTimer
MaxTimer == 2
\* out-of-bounds accesses the model follows before only the crash is left
MaxWild == 1

Keys == 0..MaxKey

(***************************************************************************)
(* Bit operations on bytes, bit 0 being the least significant one.         *)
(***************************************************************************)
Pow2(i) == CASE i = 0 -> 1 [] i = 1 -> 2 [] i = 2 -> 4 [] i = 3 -> 8
             [] i = 4 -> 16 [] i = 5 -> 32 [] i = 6 -> 64 [] i = 7 -> 128

Bit(b, i) == (b \div Pow2(i)) % 2

OrBit(p, q) == IF p + q > 0 THEN 1 ELSE 0
AndBit(p, q) == p * q
XorBit(p, q) == (p + q) % 2

\* the byte whose bit i is bits[i]
Sum8(bits) ==
    bits[0] + bits[1] * 2 + bits[2] * 4 + bits[3] * 8
    + bits[4] * 16 + bits[5] * 32 + bits[6] * 64 + bits[7] * 128

BitOr(a, b) == Sum8([i \in 0..7 |-> OrBit(Bit(a, i), Bit(b, i))])
BitAnd(a, b) == Sum8([i \in 0..7 |-> AndBit(Bit(a, i), Bit(b, i))])
BitXor(a, b) == Sum8([i \in 0..7 |-> XorBit(Bit(a, i), Bit(b, i))])

(***************************************************************************)
(* The built-in font, hex_sprite_font of load_font, as its 80 bytes.       *)
(***************************************************************************)
hex_sprite_font ==
    << 240, 144, 144, 144, 240,   32,  96,  32,  32, 112,
       240,  16, 240, 128, 240,  240,  16, 240,  16, 240,
       144, 144, 240,  16,  16,  240, 128, 240,  16, 240,
       240, 128, 240, 144, 240,  240,  16,  32,  64,  64,
       240, 144, 240, 144, 240,  240, 144, 240,  16, 240,
       240, 144, 240, 144, 144,  224, 144, 224, 144, 224,
       240, 128, 128, 128, 240,  224, 144, 144, 144, 224,
       240, 128, 240, 128, 240,  240, 128, 240, 128, 128 >>

(***************************************************************************)
(* Program files.  A file is its leading bytes and its size; the bytes     *)
(* after the leading ones are zero.                                        *)
(***************************************************************************)
W(w) == << w \div 256, w % 256 >>

File(bytes, size) == [bytes |-> bytes, size |-> size]

Plain(bytes) == File(bytes, Len(bytes))

FileByte(f, i) == IF i < Len(f.bytes) THEN f.bytes[i + 1] ELSE 0

(***************************************************************************)
(* RAM is held as the bytes that are not zero: an address outside the      *)
(* domain of the function holds 0.  Peek reads a byte of RAM, Poke stores  *)
(* bytes; Poke drops a store at an address outside RAM.                    *)
(***************************************************************************)
Zeroed == << >>

Peek(ram, a) == IF a \in DOMAIN ram THEN ram[a] ELSE 0

Poke(ram, w) ==
    LET inside == { a \in DOMAIN w : a < MAX_ADDR }
        byte(a) == IF a \in inside THEN w[a] ELSE Peek(ram, a)
    IN [a \in { b \in DOMAIN ram \cup inside : byte(b) # 0 } |-> byte(a)]

(***************************************************************************)
(* The state of run().                                                     *)
(*   status    "init" before load, "running" in the loop, "exited" once    *)
(*             run has returned, "crashed" when an out-of-bounds access    *)
(*             ended the process abnormally                                *)
(*   ret       run's return value ("none" while it has not returned)       *)
(*   exit_by   the return statement taken: "load", "underflow", "overflow",*)
(*             "memory" (the std::cerr faults), "quit" (SDL_QUIT), "end"   *)
(*             (the loop guard failed)                                     *)
(*   fb        Display::m_memory as the set of lit cells <<col, row>>      *)
(*   audio_on  the audio device is unpaused (SDL_PauseAudio(0))            *)
(*   printed   the operation words reported by std::printf                 *)
(*   operation the word fetched in this tick                               *)
(*   wild, oob the number of accesses outside an array made so far and     *)
(*             the kind of the last one                                    *)
(*   tone_offs history: the number of SDL_PauseAudio(1) calls made         *)
(*   sound_real_mc, delay_real_mc                                          *)
(*             history: the real time of the ticks that have passed since  *)
(*             the timer was written or decremented, while it is > 0       *)
(*   written   history: for each timer the value last written to it and    *)
(*             the number of timer updates made since, while it is > 0     *)
(*   last_draw history: when the instruction before this one was a draw,   *)
(*             the framebuffer before it, its I and n, the sprite bytes it *)
(*             named and the column and row Vx and Vy gave it; else NoDraw *)
(*   at        history: the address the word of this tick was fetched at   *)
(*   calls     history: for every call not yet returned from, the address  *)
(*             of its 2nnn (site) and SP before it (depth)                 *)
(* The other variables are the locals of run() with the same names.        *)
(***************************************************************************)
VARIABLES status, ret, exit_by, phase, operation,
          RAM, program_end, V, I, PC, SP, STACK,
          delay, sound, delay_accum_mc, sound_accum_mc,
          key_pressed, halt, v_key,
          fb, audio_on, printed, wild, oob, at, calls,
          tone_offs, sound_real_mc, delay_real_mc, last_draw,
          held, downs, written

vars == << status, ret, exit_by, phase, operation,
           RAM, program_end, V, I, PC, SP, STACK,
           delay, sound, delay_accum_mc, sound_accum_mc,
           key_pressed, halt, v_key,
           fb, audio_on, printed, wild, oob, at, calls,
           tone_offs, sound_real_mc, delay_real_mc, last_draw,
           held, downs, written >>

ctl == << status, ret, exit_by >>
mem == << RAM, program_end >>
stk == << SP, STACK >>
tmrs == << delay, sound, delay_accum_mc, sound_accum_mc,
           tone_offs, sound_real_mc, delay_real_mc, written >>
keys == << key_pressed, halt, v_key >>
ubs == << wild, oob >>
\* held: each key as its last event left it; downs: the keys whose key-down
\* was delivered since the wait began
waited == << held, downs >>
hist == << at, calls, waited >>

NoDraw == [live |-> FALSE]

\* a timer written with value and the updates counted since
Write(value) == [n |-> value, ticks |-> 0]

Init ==
    /\ status = "init" /\ ret = "none" /\ exit_by = "none"
    /\ phase = "fetch" /\ operation = 0
    /\ RAM = Zeroed
    /\ program_end = 0
    /\ V = [r \in 0..(NUM_REGS - 1) |-> 0]
    /\ I = 0 /\ PC = 0 /\ SP = 0
    /\ STACK = [s \in 0..(STACK_SIZE - 1) |-> 0]
    /\ delay = 0 /\ sound = 0
    /\ delay_accum_mc = 0 /\ sound_accum_mc = 0
    /\ key_pressed = [k \in 0..(NUM_KEYS - 1) |-> FALSE]
    /\ halt = FALSE /\ v_key = 0
    /\ fb = {}
    /\ audio_on = FALSE
    /\ printed = {}
    /\ wild = 0 /\ oob = "none"
    /\ at = 0 /\ calls = << >>
    /\ held = [k \in 0..(NUM_KEYS - 1) |-> FALSE] /\ downs = {}
    /\ tone_offs = 0 /\ sound_real_mc = 0 /\ delay_real_mc = 0
    /\ written = [sound |-> Write(0), delay |-> Write(0)]
    /\ last_draw = NoDraw

(***************************************************************************)
(* load: the value returned and the memory left behind.  opened is         *)
(* in.is_open(); nread is the number of bytes in.read stored, the read     *)
(* having failed when nread < f.size.                                      *)
(***************************************************************************)
Stored(ram, f, base_addr, count) ==
    Poke(ram, [a \in base_addr..(base_addr + count - 1) |->
                 FileByte(f, a - base_addr)])

\* mutant: a file ending at the last byte of RAM is let through
TooLargePast(base_addr, file_size) == base_addr + file_size > MAX_ADDR

\* the size check of line 173
TooLarge(base_addr, file_size) == base_addr + file_size >= MAX_ADDR

load(f, ram, base_addr, opened, nread) ==
    IF ~opened THEN [value |-> 0, RAM |-> ram]
    ELSE IF TooLarge(base_addr, f.size) THEN [value |-> 0, RAM |-> ram]
    ELSE IF nread < f.size
         THEN [value |-> 0, RAM |-> Stored(ram, f, base_addr, nread)]
    ELSE [value |-> U16(base_addr + f.size),
          RAM |-> Stored(ram, f, base_addr, f.size)]

load_font(ram, base_addr) ==
    Poke(ram, [a \in base_addr..(base_addr + Len(hex_sprite_font) - 1) |->
                 hex_sprite_font[a - base_addr + 1]])

(***************************************************************************)
(* The program files the model loads: see the catalogue below.             *)
(***************************************************************************)
Cat(s, t) == s \o t

Prog2(a, b) == Cat(W(a), W(b))
Prog3(a, b, c) == Cat(Prog2(a, b), W(c))
Prog4(a, b, c, d) == Cat(Prog3(a, b, c), W(d))
Prog5(a, b, c, d, e) == Cat(Prog4(a, b, c, d), W(e))

Prog6(a, b, c, d, e, g) == Cat(Prog5(a, b, c, d, e), W(g))

\* calls: an endless recursion, nested calls with their returns, a return
\* with nothing to return to
CallFiles ==
    { Plain(W(\h2200)), Plain(W(\h00EE)),
      Plain(Prog3(\h2202, \h2204, \h00EE)),
      Plain(Prog3(\h2204, \h1202, \h00EE)) }

\* f at 0x206 calls itself V0 times and returns: depth + 1 nested calls
Nest(depth) ==
    Plain(Cat(Prog5(\h6000 + depth, \h2206, \h1204, \h3000, \h120C),
              Prog4(\h00EE, \h70FF, \h2206, \h00EE)))

NestFiles == { Nest(depth) : depth \in {1, 14, 15} }

\* BCD, dump and load at the top of memory and inside it
MemoryFiles ==
    { Plain(Prog2(\hAFFE, \hF033)),
      Plain(Prog3(\hA300, \h60FE, \hF033)),
      Plain(Prog3(\hAFFF, \hF055, \hF065)),
      Plain(Prog2(\hAFFF, \hF155)),
      Plain(Prog4(\hAFFF, \h60FF, \hF01E, \hF033)),
      Plain(Prog5(\h6112, \hA300, \hF155, \hA300, \hF165)) }

\* dump V0..Vx, overwrite the registers, set I back and load them again
CopyFiles ==
    { Plain(Cat(Prog4(\h6007, \h6112, \hA300, \hF155),
                Prog4(\h6000, \h6100, \hA300, \hF165))),
      Plain(Prog6(\h6F09, \hA300, \hFF55, \h6F00, \hA300, \hFF65)),
      Plain(Prog5(\h6005, \hAFFF, \hF055, \hAFFF, \hF165)) }

\* a sprite byte between two instructions, and after them
SpriteInLine == << \hA2, \h02, \hF0, \hD0, \h05 >>

SpriteAtEnd == << \hA2, \h04, \hD0, \h01, \hF0 >>

ExampleFiles == { Plain(SpriteInLine), Plain(SpriteAtEnd) }

\* the BCD store of every byte, in the middle of the memory and at its last
\* three bytes, and one store that passes the end
BcdFiles ==
    { Plain(Prog3(\hA000 + a, \h6000 + v, \hF033)) :
        a \in {\h300, MAX_ADDR - 3}, v \in 0..255 }
    \cup { Plain(Prog3(\hAFFE, \h60FF, \hF033)) }

\* words of the families 5 and 9 with a low nibble other than 0, on equal
\* and on different registers
LowNibbleFiles ==
    { Plain(Prog4(\h6005, \h5011, \h9013, \h00E0)),
      Plain(Prog3(\h6005, \h6105, \h9017)),
      Plain(Prog3(\h6005, \h6105, \h501F)) }

\* jumps into and beyond the program
JumpFiles ==
    { Plain(W(\h1FFF)), Plain(Prog2(\h60FF, \hBFFF)), Plain(W(\h1200)),
      Plain(Prog3(\h6002, \hB202, \h00E0)) }

\* set both timers to t, wait for a key into Vx, go back to waiting
KeyWait(r, t) ==
    Plain(Prog5(\h6000 + t, \hF015, \hF018, \hF00A + r * 256, \h1206))

KeyFiles ==
    { KeyWait(r, t) : r \in {0, 1, 15}, t \in 0..MaxTimer }
    \cup { Plain(W(\hF10A)),
           Plain(Prog3(\hE09E, \hE0A1, \h1200)),
           Plain(Prog2(\h60FF, \hE09E)), Plain(Prog2(\h60FF, \hE0A1)) }

\* sound = t, then sound = V1 = 0; sound = t and a loop reading delay
TimerFiles ==
    { Plain(Prog3(\h6000 + t, \hF018, \hF118)) : t \in 1..MaxTimer }
    \cup { Plain(Prog5(\h6000 + t, \hF018, \hF015, \hF107, \h1206)) :
             t \in 1..MaxTimer }
    \cup { Plain(Prog4(\h6003, \hF015, \hF107, \hF029)),
           Plain(Prog5(\h6002, \hF015, \hF018, \hF015, \hF118)) }

AluBytes == {0, 1, 128, 255}

Alu(r, a, b, low) ==
    Plain(Prog3(\h6000 + r * 256 + a, \h6100 + b, \h8010 + r * 256 + low))

\* the same with VF as the second operand
AluY(r, a, b, low) ==
    Plain(Prog3(\h6000 + r * 256 + a, \h6F00 + b, \h80F0 + r * 256 + low))

AluFiles ==
    { Alu(r, a, b, low) : r \in {0, 15}, a \in AluBytes, b \in AluBytes,
                          low \in {0, 1, 2, 3, 4, 5, 6, 7, 14} }
    \cup { AluY(r, 1, b, low) : r \in {0, 15}, b \in {1, 255},
                                low \in {0, 1, 2, 3, 4, 5, 6, 7, 14} }

MiscFiles ==
    { Plain(Prog6(\h6005, \h3005, \h1200, \h4005, \h5010, \h9010)),
      Plain(Prog2(\h60FF, \h7002)),
      Plain(W(\hC00F)),
      Plain(Prog3(\hD005, \hD005, \h00E0)),
      Plain(Prog2(\hAFFF, \hD002)),
      Plain(Prog4(\h8008, \hE000, \hF0FF, \h5011)) }

\* draws of the font glyph at I = 0: with VF as the column and as the row,
\* over the right and the bottom edge, at coordinates beyond the screen, and
\* over a part of an earlier draw
DrawFiles ==
    { Plain(Prog2(\h6F03, \hDF05)),
      Plain(Prog2(\h6F02, \hD0F3)),
      Plain(Prog3(\h603E, \h611E, \hD015)),
      Plain(Prog3(\h6046, \h6125, \hD012)),
      Plain(Prog3(\hD005, \h6001, \hD015)) }

\* the same draw twice: on the empty screen, over itself, over a part of
\* another glyph, over the right and the bottom edge, with VF as the column
RepeatFiles ==
    { Plain(Prog3(\hD005, \hD005, \hD005)),
      Plain(Prog4(\hD005, \h6001, \hD015, \hD015)),
      Plain(Prog4(\h603E, \h611E, \hD015, \hD015)),
      Plain(Prog2(\hDF05, \hDF05)) }

\* draws whose sprite rows reach beyond RAM: from row 0 on, from row 1 on
\* with a row 0 that is lit and with VF = 1 before
EdgeFiles ==
    { Plain(Prog4(\hAFFF, \h6001, \hF01E, \hD001)),
      Plain(Prog6(\h60FF, \hAFFF, \hF055, \h6F01, \hAFFF, \hD122)) }

\* the empty file, the largest file load accepts (looping at its start,
\* jumping to its last word), the smallest it rejects
SizeFiles ==
    { File(<< >>, 0), File(W(\h1200), MAX_ADDR - program_base - 1),
      File(W(\h1FFE), MAX_ADDR - program_base - 1),
      File(W(\h1200), MAX_ADDR - program_base) }

Files ==
    CallFiles \cup NestFiles \cup MemoryFiles \cup JumpFiles \cup KeyFiles
    \cup TimerFiles \cup AluFiles \cup MiscFiles \cup DrawFiles \cup RepeatFiles
    \cup EdgeFiles \cup CopyFiles \cup ExampleFiles \cup LowNibbleFiles
    \cup SizeFiles

\* the byte counts in.read may have stored: the whole file, or when it
\* failed nothing, or the first byte of a two-byte file
ReadCounts(f) == { c \in {0, 1, f.size} : c <= f.size /\ (c = 1 => f.size = 2) }

\* what an access outside an array may read
Garbage == {0, 255}

Running == status = "running"

Return(value, by) ==
    /\ status' = "exited"
    /\ ret' = value
    /\ exit_by' = by

\* an out-of-bounds access that ends the process
Crash(kind) ==
    /\ status' = "crashed"
    /\ oob' = kind
    /\ UNCHANGED << ret, exit_by, wild >>

\* an out-of-bounds access the process survives
Survive(kind) ==
    /\ wild < MaxWild
    /\ wild' = wild + 1
    /\ oob' = kind

(***************************************************************************)
(* run, lines 236-252: load the program and the font, set PC.              *)
(***************************************************************************)
StartRunOf(files) ==
    /\ status = "init"
    /\ \E f \in files, opened \in BOOLEAN :
       \E nread \in ReadCounts(f) :
         LET r == load(f, RAM, program_base, opened, nread)
             pe == U16(r.value - 1)
         IN IF pe = 0
            THEN /\ Return(1, "load")
                 /\ RAM' = r.RAM
                 /\ program_end' = pe
                 /\ UNCHANGED PC
            ELSE /\ RAM' = load_font(r.RAM, 0)
                 /\ program_end' = pe
                 /\ PC' = program_base
                 /\ status' = "running"
                 /\ UNCHANGED << ret, exit_by >>
    /\ UNCHANGED << phase, operation, V, I, stk, tmrs, keys,
                    fb, audio_on, printed, last_draw, ubs, hist >>

StartRun == StartRunOf(Files)

(***************************************************************************)
(* run, lines 255-268: the loop guard, the halt test, fetch and PC += 2.   *)
(***************************************************************************)
LoopGuard == PC <= program_end

\* mutant: the halt is not tested, every tick fetches
SkippingNever == FALSE

Skipping == halt

\* last_draw once another word is fetched: it stands while the word of the
\* tick before (operation still holds it) was a draw
SinceDraw == IF operation \div 4096 = 13 THEN last_draw ELSE NoDraw

LoopEnd ==
    /\ Running /\ phase = "fetch"
    /\ ~LoopGuard
    /\ Return(0, "end")
    /\ UNCHANGED << phase, operation, mem, V, I, PC, stk, tmrs, keys,
                    fb, audio_on, printed, last_draw, ubs, hist >>

SkipHalted ==
    /\ Running /\ phase = "fetch"
    /\ LoopGuard
    /\ Skipping
    /\ phase' = "poll"
    /\ UNCHANGED << ctl, operation, mem, V, I, PC, stk, tmrs, keys,
                    fb, audio_on, printed, last_draw, ubs, hist >>

Fetch ==
    /\ Running /\ phase = "fetch"
    /\ LoopGuard
    /\ ~Skipping
    /\ PC + 1 < MAX_ADDR
    /\ operation' = Peek(RAM, PC) * 256 + Peek(RAM, PC + 1)
    /\ PC' = U16(PC + 2)
    /\ phase' = "exec"
    /\ at' = PC
    /\ last_draw' = SinceDraw
    /\ UNCHANGED << ctl, mem, V, I, stk, tmrs, keys,
                    fb, audio_on, printed, ubs, calls, waited >>

\* RAM[PC] or RAM[PC + 1] lies outside RAM
FetchWild ==
    /\ Running /\ phase = "fetch"
    /\ LoopGuard
    /\ ~Skipping
    /\ PC + 1 >= MAX_ADDR
    /\ \/ /\ Survive("fetch")
          /\ \E hi \in (IF PC < MAX_ADDR THEN {Peek(RAM, PC)} ELSE Garbage),
                lo \in Garbage :
                operation' = hi * 256 + lo
          /\ PC' = U16(PC + 2)
          /\ phase' = "exec"
          /\ at' = PC
          /\ last_draw' = SinceDraw
          /\ UNCHANGED ctl
       \/ /\ Crash("fetch")
          /\ UNCHANGED << operation, PC, phase, at, last_draw >>
    /\ UNCHANGED << mem, V, I, stk, tmrs, keys, fb, audio_on, printed, calls,
                    waited >>

(***************************************************************************)
(* run, lines 549-582: the event pump.  An event of a mapped key carries   *)
(* the key's code key_mapping gives it.                                    *)
(***************************************************************************)
Polling == Running /\ phase = "poll"

PollQuit ==
    /\ Polling
    /\ Return(0, "quit")
    /\ UNCHANGED << phase, operation, mem, V, I, PC, stk, tmrs, keys,
                    fb, audio_on, printed, last_draw, ubs, hist >>

\* a window event, an unmapped key, any other event
PollOther ==
    /\ Polling
    /\ UNCHANGED vars

\* mutant: any key-up ends the wait, the latch is not consulted
ReleaseOfAnyKey(code, new_state) == halt /\ ~new_state

ReleaseEdge(code, new_state) == halt /\ key_pressed[code] /\ ~new_state

PollKey(code, new_state) ==
    /\ Polling
    /\ IF ReleaseEdge(code, new_state)
       THEN /\ V' = [V EXCEPT ![v_key] = code]
            /\ halt' = FALSE
            /\ v_key' = 0
       ELSE UNCHANGED << V, halt, v_key >>
    /\ key_pressed' = [key_pressed EXCEPT ![code] = new_state]
    /\ held' = [held EXCEPT ![code] = new_state]
    /\ downs' = IF ~halt' THEN {}
                ELSE IF new_state THEN downs \cup {code} ELSE downs
    /\ UNCHANGED << ctl, phase, operation, mem, I, PC, stk, tmrs,
                    fb, audio_on, printed, last_draw, ubs, at, calls >>

PollKeyDown == \E code \in Keys : PollKey(code, TRUE)

PollKeyUp == \E code \in Keys : PollKey(code, FALSE)

PollDone ==
    /\ Polling
    /\ phase' = "timers"
    /\ UNCHANGED << ctl, operation, mem, V, I, PC, stk, tmrs, keys,
                    fb, audio_on, printed, last_draw, ubs, hist >>

(***************************************************************************)
(* run, lines 583-608: the frame sleep and the two timers.                 *)
(***************************************************************************)
\* the values of diff (line 583, in microseconds) the model follows: a tick
\* that sleeps, and a tick whose work takes longer than a frame (it is seven
\* frames short of a timer tick)
Diffs == {0, TIMER_TICK - 7 * FRAME_DURATION}

\* mutant: the timers stand still while the machine is halted
AdvanceUnlessHalted(timer, accum) ==
    IF timer > 0 /\ ~halt
    THEN IF accum + FRAME_DURATION >= TIMER_TICK
         THEN [timer |-> timer - 1, accum |-> 0]
         ELSE [timer |-> timer, accum |-> accum + FRAME_DURATION]
    ELSE [timer |-> timer, accum |-> accum]

\* mutant: the test timer > 0 is missing and a timer at 0 is decremented
AdvanceWrapping(timer, accum) ==
    IF accum + FRAME_DURATION >= TIMER_TICK
    THEN [timer |-> U8(timer - 1), accum |-> 0]
    ELSE [timer |-> timer, accum |-> accum + FRAME_DURATION]

\* mutant: a decrement does not restart the accumulator
AdvanceKeepingSum(timer, accum) ==
    IF timer > 0
    THEN IF accum + FRAME_DURATION >= TIMER_TICK
         THEN [timer |-> timer - 1, accum |-> accum + FRAME_DURATION]
         ELSE [timer |-> timer, accum |-> accum + FRAME_DURATION]
    ELSE [timer |-> timer, accum |-> accum]

\* mutant: a decrement leaves in the accumulator what went beyond the tick
AdvanceKeepingRest(timer, accum) ==
    IF timer > 0
    THEN IF accum + FRAME_DURATION >= TIMER_TICK
         THEN [timer |-> timer - 1,
               accum |-> accum + FRAME_DURATION - TIMER_TICK]
         ELSE [timer |-> timer, accum |-> accum + FRAME_DURATION]
    ELSE [timer |-> timer, accum |-> accum]

\* one timer and its accumulator after the update of one tick
Advance(timer, accum) ==
    IF timer > 0
    THEN IF accum + FRAME_DURATION >= TIMER_TICK
         THEN [timer |-> timer - 1, accum |-> 0]
         ELSE [timer |-> timer, accum |-> accum + FRAME_DURATION]
    ELSE [timer |-> timer, accum |-> accum]

\* mutant: the tone is switched off in every update that leaves sound at 0
ToneOffAtZero(before, after) == after = 0

\* SDL_PauseAudio(1) is called: sound was decremented and is 0 now
ToneOff(before, after) == before > 0 /\ after = 0

\* the real time a tick takes: the sleep fills a short tick up to a frame
RealTick(diff) == IF diff < FRAME_DURATION THEN FRAME_DURATION ELSE diff

\* the real time since the timer was written or decremented
RealSince(before, after, real, diff) ==
    IF after > 0 /\ after = before THEN real + RealTick(diff) ELSE 0

\* one more update of a timer that is running
Counted(timer, w) == IF timer > 0 THEN [w EXCEPT !.ticks = @ + 1] ELSE w

UpdateTimers ==
    /\ Running /\ phase = "timers"
    /\ written' = [sound |-> Counted(sound, written.sound),
                   delay |-> Counted(delay, written.delay)]
    /\ \E diff \in Diffs :
       LET s == Advance(sound, sound_accum_mc)
           d == Advance(delay, delay_accum_mc)
       IN /\ sound' = s.timer
          /\ sound_accum_mc' = s.accum
          /\ audio_on' = IF ToneOff(sound, s.timer) THEN FALSE ELSE audio_on
          /\ tone_offs' = IF ToneOff(sound, s.timer) THEN tone_offs + 1
                                                      ELSE tone_offs
          /\ sound_real_mc' = RealSince(sound, s.timer, sound_real_mc, diff)
          /\ delay' = d.timer
          /\ delay_accum_mc' = d.accum
          /\ delay_real_mc' = RealSince(delay, d.timer, delay_real_mc, diff)
    /\ phase' = "fetch"
    /\ UNCHANGED << ctl, operation, mem, V, I, PC, stk, keys,
                    fb, printed, last_draw, ubs, hist >>

(***************************************************************************)
(* run, lines 262-266: the fields of the fetched word.                     *)
(***************************************************************************)
n == operation % 16
kk == operation % 256
nnn == operation % 4096
x == (operation \div 256) % 16
y == (operation \div 16) % 16
family == operation \div 4096

Executing == Running /\ phase = "exec"

\* an instruction that changes V alone
SetV(newV) ==
    /\ V' = newV
    /\ phase' = "poll"
    /\ UNCHANGED << ctl, operation, mem, I, PC, stk, tmrs, keys,
                    fb, audio_on, printed, last_draw, ubs, hist >>

\* an instruction that changes PC alone
SetPC(newPC) ==
    /\ PC' = newPC
    /\ phase' = "poll"
    /\ UNCHANGED << ctl, operation, mem, V, I, stk, tmrs, keys,
                    fb, audio_on, printed, last_draw, ubs, hist >>

\* an instruction that changes I alone
SetI(newI) ==
    /\ I' = newI
    /\ phase' = "poll"
    /\ UNCHANGED << ctl, operation, mem, V, PC, stk, tmrs, keys,
                    fb, audio_on, printed, last_draw, ubs, hist >>

\* mutant: the flag is written first, the result after it
ResultOverFlag(r, value, flag) == [[V EXCEPT ![15] = flag] EXCEPT ![r] = value]

\* V with V[r] = value followed by V[0xF] = flag
WithFlag(r, value, flag) == [[V EXCEPT ![r] = value] EXCEPT ![15] = flag]

(***************************************************************************)
(* run, lines 271-297: family 0.                                           *)
(***************************************************************************)
Op_00E0 ==
    /\ Executing /\ family = 0 /\ kk = \hE0
    /\ fb' = {}
    /\ phase' = "poll"
    /\ UNCHANGED << ctl, operation, mem, V, I, PC, stk, tmrs, keys,
                    audio_on, printed, last_draw, ubs, hist >>

StackEmpty == SP = 0

\* mutant: the underflow is reported and the run returns 0
UnderflowReturnsZero == Return(0, "underflow")

Underflow == Return(1, "underflow")

Op_00EE ==
    /\ Executing /\ family = 0 /\ kk = \hEE
    /\ IF StackEmpty
       THEN /\ Underflow
            /\ UNCHANGED << phase, PC, stk, calls >>
       ELSE /\ PC' = STACK[SP - 1]
            /\ SP' = SP - 1
            /\ phase' = "poll"
            /\ calls' = SubSeq(calls, 1, Len(calls) - 1)
            /\ UNCHANGED << ctl, STACK >>
    /\ UNCHANGED << operation, mem, V, I, tmrs, keys,
                    fb, audio_on, printed, last_draw, ubs, at, waited >>

(***************************************************************************)
(* run, lines 298-338: families 1 to 7.                                    *)
(***************************************************************************)
Op_1nnn == Executing /\ family = 1 /\ SetPC(nnn)

StackFull == SP + 1 = STACK_SIZE

\* mutant: the call pushes the address of the call itself
ReturnAddressOfCall == at

\* the address a call pushes: PC, which the fetch has advanced
ReturnAddress == PC

Op_2nnn ==
    /\ Executing /\ family = 2
    /\ IF StackFull
       THEN /\ Return(1, "overflow")
            /\ UNCHANGED << phase, PC, stk, calls >>
       ELSE /\ STACK' = [STACK EXCEPT ![SP] = ReturnAddress]
            /\ SP' = SP + 1
            /\ PC' = nnn
            /\ phase' = "poll"
            /\ calls' = Append(calls, [site |-> at, depth |-> SP])
            /\ UNCHANGED ctl
    /\ UNCHANGED << operation, mem, V, I, tmrs, keys,
                    fb, audio_on, printed, last_draw, ubs, at, waited >>

Skip(cond) == U16(PC + (IF cond THEN 2 ELSE 0))

Op_3xkk == Executing /\ family = 3 /\ SetPC(Skip(V[x] = kk))

Op_4xkk == Executing /\ family = 4 /\ SetPC(Skip(V[x] # kk))

\* mutant: a word of family 5 with a low nibble other than 0 never skips
Op_5xy0LowZero ==
    Executing /\ family = 5 /\ SetPC(Skip(n = 0 /\ V[x] = V[y]))

Op_5xy0 == Executing /\ family = 5 /\ SetPC(Skip(V[x] = V[y]))

Op_6xkk == Executing /\ family = 6 /\ SetV([V EXCEPT ![x] = kk])

Op_7xkk == Executing /\ family = 7 /\ SetV([V EXCEPT ![x] = U8(V[x] + kk)])

(***************************************************************************)
(* run, lines 339-410: family 8.                                           *)
(***************************************************************************)
Op_8xy0 == Executing /\ family = 8 /\ n = 0 /\ SetV([V EXCEPT ![x] = V[y]])

\* mutant: OR, AND and XOR leave the flag register as it was
LogicFlagKept == V[15]

\* what OR, AND and XOR store into V[0xF]
LogicFlag == 0

Op_8xy1 ==
    /\ Executing /\ family = 8 /\ n = 1
    /\ SetV(WithFlag(x, BitOr(V[x], V[y]), LogicFlag))

Op_8xy2 ==
    /\ Executing /\ family = 8 /\ n = 2
    /\ SetV(WithFlag(x, BitAnd(V[x], V[y]), LogicFlag))

Op_8xy3 ==
    /\ Executing /\ family = 8 /\ n = 3
    /\ SetV(WithFlag(x, BitXor(V[x], V[y]), LogicFlag))

\* mutant: a sum of exactly 255 carries
CarryFrom255(sum) == IF sum >= 255 THEN 1 ELSE 0

\* sum > 0xFF as a byte
Carry(sum) == IF sum > 255 THEN 1 ELSE 0

Op_8xy4 ==
    /\ Executing /\ family = 8 /\ n = 4
    /\ LET sum == V[x] + V[y]
       IN SetV(WithFlag(x, sum % 256, Carry(sum)))

\* mutant: equal operands count as a borrow
NoBorrowStrict(a, b) == IF a > b THEN 1 ELSE 0

\* a >= b as a byte
NoBorrow(a, b) == IF a >= b THEN 1 ELSE 0

Op_8xy5 ==
    /\ Executing /\ family = 8 /\ n = 5
    /\ LET flag == NoBorrow(V[x], V[y])
       IN SetV(WithFlag(x, U8(V[x] - V[y]), flag))

\* mutant: the shifts work on V[x] in place
ShiftOperandInPlace == V[x]

\* V[x] = V[y] comes first, so the shifted value is V[y]
ShiftOperand == V[y]

Op_8xy6 ==
    /\ Executing /\ family = 8 /\ n = 6
    /\ LET flag == ShiftOperand % 2
       IN SetV(WithFlag(x, ShiftOperand \div 2, flag))

Op_8xy7 ==
    /\ Executing /\ family = 8 /\ n = 7
    /\ LET flag == NoBorrow(V[y], V[x])
       IN SetV(WithFlag(x, U8(V[y] - V[x]), flag))

Op_8xyE ==
    /\ Executing /\ family = 8 /\ n = 14
    /\ LET flag == ShiftOperand \div 128
       IN SetV(WithFlag(x, (ShiftOperand * 2) % 256, flag))

(***************************************************************************)
(* run, lines 411-430: families 9 to C.                                    *)
(***************************************************************************)
Op_9xy0 == Executing /\ family = 9 /\ SetPC(Skip(V[x] # V[y]))

Op_Annn == Executing /\ family = 10 /\ SetI(nnn)

Op_Bnnn == Executing /\ family = 11 /\ SetPC(U16(nnn + V[0]))

\* the values uid(rd) yields in the model
RandomBytes == {0, 90, 255}

Op_Cxkk ==
    /\ Executing /\ family = 12
    /\ \E r \in RandomBytes : SetV([V EXCEPT ![x] = BitAnd(r, kk)])

(***************************************************************************)
(* Display::set_pixels and run, lines 431-448: draw.                       *)
(***************************************************************************)
\* mutant: bit i of the sprite row goes to column px + i
ToggledMirrored(px, py, sprite_row) ==
    { << px + i, py >> : i \in { j \in 0..7 : px + j < WIDTH
                                              /\ Bit(sprite_row, j) = 1 } }

\* the cells of row py that sprite_row toggles, its leftmost bit at px
Toggled(px, py, sprite_row) ==
    { << px + i, py >> : i \in { j \in 0..7 : px + j < WIDTH
                                              /\ Bit(sprite_row, 7 - j) = 1 } }

\* mutant: the sprite is ORed onto the framebuffer
set_pixelsOr(f, px, py, sprite_row) ==
    LET t == Toggled(px, py, sprite_row)
    IN [fb |-> f \cup t, ret |-> (t \cap f) # {}]

\* mutant: every set sprite bit counts as a collision
set_pixelsAnyBit(f, px, py, sprite_row) ==
    LET t == Toggled(px, py, sprite_row)
    IN [fb |-> (f \ t) \cup (t \ f), ret |-> t # {}]

set_pixels(f, px, py, sprite_row) ==
    LET t == Toggled(px, py, sprite_row)
    IN [fb |-> (f \ t) \cup (t \ f), ret |-> (t \cap f) # {}]

\* mutant: the check lets the address RAM.size() through
OutOfRAMPast(a) == a > MAX_ADDR

\* the bounds check of line 438
OutOfRAM(a) == a >= MAX_ADDR

\* the loop of lines 436-445 from row i on: the framebuffer, V[0xF] and
\* whether the bounds check of line 438 ended the run
RECURSIVE draw_rows(_, _, _, _, _)
draw_rows(f, flag, cx, cy, i) ==
    IF i < n /\ cy + i < HEIGHT
    THEN IF OutOfRAM(I + i)
         THEN [fb |-> f, flag |-> flag, fault |-> TRUE]
         ELSE LET r == set_pixels(f, cx, cy + i, Peek(RAM, I + i))
              IN draw_rows(r.fb, IF r.ret THEN 1 ELSE flag, cx, cy, i + 1)
    ELSE [fb |-> f, flag |-> flag, fault |-> FALSE]

\* what last_draw records of the draw about to execute
Drawing ==
    [live |-> TRUE, fb |-> fb, I |-> I, n |-> n,
     bytes |-> [i \in 0..(n - 1) |-> Peek(RAM, I + i)],
     col |-> V[x] % WIDTH, row |-> V[y] % HEIGHT]

\* mutant: the coordinates are read before V[0xF] is cleared
DrawOperandsBefore == V

\* the registers cx and cy are read from: V after V[0xF] = 0
DrawOperands == [V EXCEPT ![15] = 0]

Op_Dxyn ==
    /\ Executing /\ family = 13
    /\ LET V0 == [V EXCEPT ![15] = 0]
           cx == DrawOperands[x] % WIDTH
           cy == DrawOperands[y] % HEIGHT
           d == draw_rows(fb, 0, cx, cy, 0)
       IN /\ fb' = d.fb
          /\ V' = [V0 EXCEPT ![15] = d.flag]
          /\ IF d.fault
             THEN Return(1, "memory") /\ UNCHANGED phase
             ELSE phase' = "poll" /\ UNCHANGED ctl
    /\ last_draw' = Drawing
    /\ UNCHANGED << operation, mem, I, PC, stk, tmrs, keys,
                    audio_on, printed, ubs, hist >>

(***************************************************************************)
(* run, lines 449-470: family E.  key_pressed has NUM_KEYS slots and V[x]  *)
(* may be any byte.                                                        *)
(***************************************************************************)
KeyTest(skip_if_pressed) ==
    /\ \/ /\ V[x] < NUM_KEYS
          /\ PC' = Skip(key_pressed[V[x]] = skip_if_pressed)
          /\ phase' = "poll"
          /\ UNCHANGED << ctl, ubs, hist >>
       \/ /\ V[x] >= NUM_KEYS
          /\ Survive("latch")
          /\ \E pressed \in BOOLEAN : PC' = Skip(pressed = skip_if_pressed)
          /\ phase' = "poll"
          /\ UNCHANGED ctl
       \/ /\ V[x] >= NUM_KEYS
          /\ Crash("latch")
          /\ UNCHANGED << PC, phase >>
    /\ UNCHANGED << operation, mem, V, I, stk, tmrs, keys,
                    fb, audio_on, printed, last_draw, hist >>

Op_ExA1 == Executing /\ family = 14 /\ kk = \hA1 /\ KeyTest(FALSE)

Op_Ex9E == Executing /\ family = 14 /\ kk = \h9E /\ KeyTest(TRUE)

(***************************************************************************)
(* run, lines 471-541: family F.                                           *)
(***************************************************************************)
Op_Fx07 == Executing /\ family = 15 /\ kk = \h07 /\ SetV([V EXCEPT ![x] = delay])

\* mutant: the wait begins with the latch as it is
Op_Fx0AKeepsLatch ==
    /\ Executing /\ family = 15 /\ kk = \h0A
    /\ halt' = TRUE
    /\ v_key' = x
    /\ downs' = {}
    /\ phase' = "poll"
    /\ UNCHANGED << ctl, operation, mem, V, I, PC, stk, tmrs, key_pressed,
                    fb, audio_on, printed, last_draw, ubs, at, calls, held >>

Op_Fx0A ==
    /\ Executing /\ family = 15 /\ kk = \h0A
    /\ halt' = TRUE
    /\ v_key' = x
    /\ key_pressed' = [k \in 0..(NUM_KEYS - 1) |-> FALSE]
    /\ downs' = {}
    /\ phase' = "poll"
    /\ UNCHANGED << ctl, operation, mem, V, I, PC, stk, tmrs,
                    fb, audio_on, printed, last_draw, ubs, at, calls, held >>

Op_Fx15 ==
    /\ Executing /\ family = 15 /\ kk = \h15
    /\ delay' = V[x]
    /\ delay_accum_mc' = 0
    /\ delay_real_mc' = 0
    /\ written' = [written EXCEPT !.delay = Write(V[x])]
    /\ phase' = "poll"
    /\ UNCHANGED << ctl, operation, mem, V, I, PC, stk, keys,
                    sound, sound_accum_mc, sound_real_mc, tone_offs,
                    fb, audio_on, printed, last_draw, ubs, hist >>

\* mutant: the write of the sound timer keeps the accumulator
Op_Fx18KeepsAccum ==
    /\ Executing /\ family = 15 /\ kk = \h18
    /\ sound' = V[x]
    /\ sound_real_mc' = 0
    /\ written' = [written EXCEPT !.sound = Write(V[x])]
    /\ audio_on' = IF V[x] > 0 THEN TRUE ELSE audio_on
    /\ phase' = "poll"
    /\ UNCHANGED << ctl, operation, mem, V, I, PC, stk, keys, sound_accum_mc,
                    delay, delay_accum_mc, delay_real_mc, tone_offs,
                    fb, printed, last_draw, ubs, hist >>

Op_Fx18 ==
    /\ Executing /\ family = 15 /\ kk = \h18
    /\ sound' = V[x]
    /\ sound_accum_mc' = 0
    /\ sound_real_mc' = 0
    /\ written' = [written EXCEPT !.sound = Write(V[x])]
    /\ audio_on' = IF V[x] > 0 THEN TRUE ELSE audio_on
    /\ phase' = "poll"
    /\ UNCHANGED << ctl, operation, mem, V, I, PC, stk, keys,
                    delay, delay_accum_mc, delay_real_mc, tone_offs,
                    fb, printed, last_draw, ubs, hist >>

Op_Fx1E == Executing /\ family = 15 /\ kk = \h1E /\ SetI(U16(I + V[x]))

Op_Fx29 == Executing /\ family = 15 /\ kk = \h29 /\ SetI(V[x] * 5)

\* an instruction storing w to RAM and leaving I at newI; last is the
\* highest address it touches
Store(w, last, newI, kind) ==
    /\ RAM' = Poke(RAM, w)
    /\ \/ /\ last < MAX_ADDR
          /\ I' = newI
          /\ phase' = "poll"
          /\ UNCHANGED << ctl, ubs, hist >>
       \/ /\ last >= MAX_ADDR
          /\ Survive(kind)
          /\ I' = newI
          /\ phase' = "poll"
          /\ UNCHANGED ctl
       \/ /\ last >= MAX_ADDR
          /\ Crash(kind)
          /\ UNCHANGED << I, phase >>
    /\ UNCHANGED << operation, program_end, V, PC, stk, tmrs, keys,
                    fb, audio_on, printed, last_draw, hist >>

Hundreds(v) == v \div 100

\* mutant: the tens are taken of the whole value
TensOfAll(v) == v \div 10

Tens(v) == (v % 100) \div 10

Ones(v) == v % 10

Op_Fx33 ==
    /\ Executing /\ family = 15 /\ kk = \h33
    /\ Store((I :> Hundreds(V[x])) @@ ((I + 1) :> Tens(V[x]))
                @@ ((I + 2) :> Ones(V[x])),
             I + 2, I, "bcd")

\* mutant: the copy leaves I where it was
AfterCopyKeepsI == I

\* I after Fx55 and Fx65: I += x + 1
AfterCopy == U16(I + x + 1)

Op_Fx55 ==
    /\ Executing /\ family = 15 /\ kk = \h55
    /\ Store([a \in I..(I + x) |-> V[a - I]], I + x, AfterCopy, "dump")

Op_Fx65 ==
    /\ Executing /\ family = 15 /\ kk = \h65
    /\ \/ /\ I + x < MAX_ADDR
          /\ V' = [r \in 0..(NUM_REGS - 1) |-> IF r <= x THEN Peek(RAM, I + r) ELSE V[r]]
          /\ I' = AfterCopy
          /\ phase' = "poll"
          /\ UNCHANGED << ctl, ubs, hist >>
       \/ /\ I + x >= MAX_ADDR
          /\ Survive("load")
          /\ \E g \in Garbage :
                V' = [r \in 0..(NUM_REGS - 1) |->
                        IF r > x THEN V[r]
                        ELSE IF I + r < MAX_ADDR THEN Peek(RAM, I + r) ELSE g]
          /\ I' = AfterCopy
          /\ phase' = "poll"
          /\ UNCHANGED ctl
       \/ /\ I + x >= MAX_ADDR
          /\ Crash("load")
          /\ UNCHANGED << V, I, phase >>
    /\ UNCHANGED << operation, mem, PC, stk, tmrs, keys,
                    fb, audio_on, printed, last_draw, hist >>

(***************************************************************************)
(* The default cases of the switches: the word is printed and nothing else *)
(* happens.                                                                *)
(***************************************************************************)
Unknown ==
    \/ family = 0 /\ kk \notin {\hE0, \hEE}
    \/ family = 8 /\ n \notin {0, 1, 2, 3, 4, 5, 6, 7, 14}
    \/ family = 14 /\ kk \notin {\hA1, \h9E}
    \/ family = 15 /\ kk \notin {\h07, \h0A, \h15, \h18, \h1E, \h29, \h33, \h55, \h65}

\* mutant: a word without a case ends the run
Op_defaultFatal ==
    /\ Executing /\ Unknown
    /\ printed' = printed \cup {operation}
    /\ Return(1, "unknown")
    /\ UNCHANGED << phase, operation, mem, V, I, PC, stk, tmrs, keys,
                    fb, audio_on, ubs, hist, last_draw >>

Op_default ==
    /\ Executing /\ Unknown
    /\ printed' = printed \cup {operation}
    /\ phase' = "poll"
    /\ UNCHANGED << ctl, operation, mem, V, I, PC, stk, tmrs, keys,
                    fb, audio_on, ubs, hist, last_draw >>

Next ==
    \/ StartRun
    \/ LoopEnd \/ SkipHalted \/ Fetch \/ FetchWild
    \/ Op_00E0 \/ Op_00EE \/ Op_1nnn \/ Op_2nnn \/ Op_3xkk \/ Op_4xkk
    \/ Op_5xy0 \/ Op_6xkk \/ Op_7xkk
    \/ Op_8xy0 \/ Op_8xy1 \/ Op_8xy2 \/ Op_8xy3 \/ Op_8xy4 \/ Op_8xy5
    \/ Op_8xy6 \/ Op_8xy7 \/ Op_8xyE
    \/ Op_9xy0 \/ Op_Annn \/ Op_Bnnn \/ Op_Cxkk \/ Op_Dxyn
    \/ Op_ExA1 \/ Op_Ex9E
    \/ Op_Fx07 \/ Op_Fx0A \/ Op_Fx15 \/ Op_Fx18 \/ Op_Fx1E \/ Op_Fx29
    \/ Op_Fx33 \/ Op_Fx55 \/ Op_Fx65
    \/ Op_default
    \/ PollQuit \/ PollOther \/ PollKeyDown \/ PollKeyUp \/ PollDone
    \/ UpdateTimers

Spec == Init /\ [][Next]_vars

\* run given a file of BcdFiles, with no key event
StartBcd == StartRunOf(BcdFiles)

NextBcd ==
    \/ StartBcd
    \/ LoopEnd \/ Fetch
    \/ Op_6xkk \/ Op_Annn \/ Op_Fx33
    \/ PollQuit \/ PollOther \/ PollDone
    \/ UpdateTimers

SpecBcd == Init /\ [][NextBcd]_vars

(***************************************************************************)
(* Claims.                                                                 *)
(***************************************************************************)
Boundary == Running /\ phase = "fetch"

IsCall == Executing /\ family = 2

IsReturn == Executing /\ family = 0 /\ kk = \hEE

\* C1: a call succeeds whenever fewer than 16 return addresses are on the
\* call stack: a run that ended with a stack overflow had 16 of them.
C1_OverflowOnlyWhenFull == exit_by = "overflow" => SP = STACK_SIZE

\* C2: when load fails (it returns 0, so that program_end is 0 - 1) the run
\* has ended with a failure: it is never in the loop.
C2_LoadFailureEndsRun ==
    (status # "init" /\ program_end = U16(0 - 1))
        => (status = "exited" /\ ret = 1)

\* the highest address Fx33, Fx55 or Fx65 touches
C3_TopAddress == IF kk = \h33 THEN I + 2 ELSE I + x

\* C3: a BCD store, register dump or register load that would touch an
\* address at or beyond 4096 ends the run with an out-of-bounds fault,
\* memory and registers being left as they were.
C3_StoreBeyondMemoryFaults ==
    [][(Executing /\ family = 15 /\ kk \in {\h33, \h55, \h65}
            /\ C3_TopAddress >= MAX_ADDR)
          => (status' = "exited" /\ ret' = 1 /\ exit_by' = "memory"
              /\ RAM' = RAM /\ V' = V)]_vars

\* C4: when the loop is to fetch at a PC with PC or PC + 1 at or beyond 4096
\* the run ends with an out-of-bounds fault and a failure status.
C4_FetchBeyondMemoryFaults ==
    [][(Boundary /\ ~halt /\ PC + 1 >= MAX_ADDR)
          => (status' = "exited" /\ ret' = 1 /\ exit_by' = "memory")]_vars

\* C5: a return that does not fault sets PC to the address after the
\* matching call (the call's address + 2) and SP to its value before that
\* call; a call that does not fault is then on record as the innermost one.
C5_CallReturnRoundTrip ==
    [][/\ (IsReturn /\ SP > 0)
            => /\ calls # << >>
               /\ PC' = calls[Len(calls)].site + 2
               /\ SP' = calls[Len(calls)].depth
               /\ status' = "running"
       /\ (IsCall /\ status' = "running")
            => /\ Len(calls') = SP'
               /\ calls'[Len(calls')].site = at
               /\ PC' = nnn]_vars

\* a return from the 15th nested call has executed
C5_Witness ==
    /\ Running /\ phase = "poll" /\ family = 0 /\ kk = \hEE
    /\ SP = STACK_SIZE - 2
    /\ PC = STACK[SP]

\* C6: a return with an empty call stack ends the run with a stack
\* underflow and a failure status, PC still being the address after the
\* return instruction and the stack untouched.
C6_ReturnOnEmptyStackFaults ==
    [][(IsReturn /\ SP = 0)
          => /\ status' = "exited" /\ ret' = 1 /\ exit_by' = "underflow"
             /\ PC' = U16(at + 2)
             /\ SP' = 0 /\ STACK' = STACK]_vars

C6_Witness == status = "exited" /\ exit_by = "underflow" /\ calls = << >>

\* C7: while halted the word of this tick is the Fx0A and v_key its x; the
\* machine leaves the halt only in a step that takes some key from pressed
\* to released, and that step stores the key's code into Vx; PC stays the
\* address after the Fx0A, where execution resumes.
C7_KeyWait ==
    [][halt
        => /\ family = 15 /\ kk = \h0A /\ v_key = x
           /\ PC = U16(at + 2) /\ PC' = PC
           /\ \/ halt'
              \/ \E code \in 0..(NUM_KEYS - 1) :
                    /\ key_pressed[code] /\ ~key_pressed'[code]
                    /\ V' = [V EXCEPT ![x] = code]
                    /\ status' = "running"]_vars

\* the wait of an FF0A has ended with the release of key 1
C7_Witness ==
    /\ Running /\ ~halt /\ phase = "poll"
    /\ operation = \hFF0A /\ V[15] = 1 /\ ~key_pressed[1]

\* C8: while halted no step changes PC, I, memory, the call stack or the
\* framebuffer, nor a register other than Vx; a step that leaves the
\* machine halted changes no register at all.
C8_HaltedFrame ==
    [][halt
        => /\ PC' = PC /\ I' = I /\ RAM' = RAM
           /\ STACK' = STACK /\ SP' = SP /\ fb' = fb
           /\ \A r \in 0..(NUM_REGS - 1) : r # v_key => V'[r] = V[r]
           /\ halt' => V' = V]_vars

\* a whole tick has passed in the halt, with key 0 held down
C8_Witness == Boundary /\ halt /\ key_pressed[0] /\ PC <= program_end

\* a timer after one tick: decremented when it is > 0 and its accumulator,
\* credited one frame, reaches the timer tick
C9_Timer(timer, accum) ==
    IF timer > 0 /\ accum + FRAME_DURATION >= TIMER_TICK THEN timer - 1 ELSE timer

\* C9: in the halt a tick still runs its event pump and its timer update:
\* the pump follows the skipped fetch and a key-down reaches the latch; and
\* halted or not, the update decrements each timer that is > 0 when its
\* accumulator, credited one frame, reaches the timer tick.
C9_HaltedTickStillRuns ==
    /\ [](\A code \in Keys :
            (Running /\ halt /\ phase = "poll")
                => ENABLED (PollKey(code, TRUE) /\ key_pressed'[code]))
    /\ [][/\ ((Running /\ halt /\ phase = "fetch" /\ LoopGuard)
                => phase' = "poll")
           /\ ((Running /\ halt /\ phase = "poll" /\ status' = "running")
                => phase' \in {"poll", "timers"})
           /\ ((Running /\ phase = "timers")
                => /\ phase' = "fetch"
                   /\ delay' = C9_Timer(delay, delay_accum_mc)
                   /\ sound' = C9_Timer(sound, sound_accum_mc))]_vars

\* in the halt both timers have been decremented and a key is held down
C9_Witness ==
    /\ Running /\ halt /\ key_pressed[1]
    /\ operation = \hF10A /\ V[0] = 2 /\ delay = 1 /\ sound = 1

\* C10: at every tick boundary the tone is on exactly when sound > 0.
C10_ToneIffSoundPositive == Boundary => (audio_on <=> sound > 0)

IsTimerUpdate == Running /\ phase = "timers"

\* C11: a tone-off signal is emitted in exactly the steps in which a
\* decrement takes the sound timer to 0, one signal in each: none while the
\* timer is > 0, none while it stays 0, none when an instruction writes 0.
C11_OneToneOffPerExpiry ==
    [][tone_offs' = IF IsTimerUpdate /\ sound = 1 /\ sound' = 0
                    THEN tone_offs + 1 ELSE tone_offs]_vars

\* the sound timer has expired and later updates have run with it at 0
C11_Witness ==
    /\ Boundary /\ operation = \h1206
    /\ tone_offs = 1 /\ sound = 0 /\ delay = 0 /\ V[1] = 1

\* C12: the time credited to a running timer's accumulator in a tick is the
\* real time of that tick.
C12_CreditIsRealTime ==
    [][IsTimerUpdate
        => /\ (sound > 0 /\ sound' = sound)
                => sound_accum_mc' - sound_accum_mc
                     = sound_real_mc' - sound_real_mc
           /\ (delay > 0 /\ delay' = delay)
                => delay_accum_mc' - delay_accum_mc
                     = delay_real_mc' - delay_real_mc]_vars

\* C13: when the ticks since a timer was written or last decremented have
\* taken exactly one timer tick of real time, the timer has been decremented:
\* no running timer has gone exactly one period without its decrement.
C13_OnePeriodOneDecrement ==
    /\ sound > 0 => sound_real_mc # TIMER_TICK
    /\ delay > 0 => delay_real_mc # TIMER_TICK

\* C14: a timer changes only when Fx15 (delay) or Fx18 (sound) writes Vx to
\* it, or when the update of a tick takes 1 from a timer that is > 0; so a
\* timer at 0 stays 0 until it is written, and none leaves 0 .. 255.
C14_TimerChanges ==
    [][/\ delay' # delay
            => \/ Executing /\ family = 15 /\ kk = \h15 /\ delay' = V[x]
               \/ IsTimerUpdate /\ delay > 0 /\ delay' = delay - 1
       /\ sound' # sound
            => \/ Executing /\ family = 15 /\ kk = \h18 /\ sound' = V[x]
               \/ IsTimerUpdate /\ sound > 0 /\ sound' = sound - 1
       /\ delay' \in 0..255 /\ sound' \in 0..255]_vars

\* both timers have been written, have counted down to 0 and have stayed
\* there over a further update
C14_Witness ==
    /\ Running /\ phase = "timers" /\ operation = \h1206
    /\ delay = 0 /\ sound = 0 /\ V[0] = MaxTimer /\ V[1] = 0

IsAlu(low) == Executing /\ family = 8 /\ n = low

\* the flag of a family 8 instruction, from the registers before it
C15_AluFlag ==
    CASE n \in {1, 2, 3} -> 0
      [] n = 4 -> IF V[x] + V[y] > 255 THEN 1 ELSE 0
      [] n = 5 -> IF V[x] >= V[y] THEN 1 ELSE 0
      [] n = 6 -> V[y] % 2
      [] n = 7 -> IF V[y] >= V[x] THEN 1 ELSE 0
      [] n = 14 -> V[y] \div 128

\* C15: after 8xy1 .. 8xy7 and 8xyE register VF holds the flag computed from
\* the registers before the instruction, and after a draw it holds 1 exactly
\* when the draw turned a lit cell off; also when x = 0xF.
C15_FlagWrittenLast ==
    [][/\ (Executing /\ family = 8 /\ n \in {1, 2, 3, 4, 5, 6, 7, 14})
            => V'[15] = C15_AluFlag
       /\ (Executing /\ family = 13 /\ status' = "running")
            => V'[15] = IF fb \ fb' # {} THEN 1 ELSE 0]_vars

\* 8F14 has added V1 = 1 to VF = 255: VF holds the carry, not the sum 0
C15_Witness ==
    /\ Running /\ phase = "poll" /\ operation = \h8F14
    /\ V[1] = 1 /\ V[15] = 1

\* C16: 8xy4 leaves VF = 1 when Vx + Vy > 255 and VF = 0 otherwise, and for
\* x # 0xF leaves Vx = (Vx + Vy) mod 256, Vx and Vy being the values before.
C16_AddCarry ==
    [][IsAlu(4)
        => /\ V'[15] = IF V[x] + V[y] > 255 THEN 1 ELSE 0
           /\ x # 15 => V'[x] = (V[x] + V[y]) % 256]_vars

\* 8014 has added 128 to 255
C16_Witness ==
    /\ Running /\ phase = "poll" /\ operation = \h8014
    /\ V[0] = 127 /\ V[1] = 128 /\ V[15] = 1

\* C17: 8xy5 leaves VF = 1 when Vx >= Vy and VF = 0 otherwise, and for
\* x # 0xF leaves Vx = (Vx - Vy) mod 256, Vx and Vy being the values before.
C17_SubNoBorrow ==
    [][IsAlu(5)
        => /\ V'[15] = IF V[x] >= V[y] THEN 1 ELSE 0
           /\ x # 15 => V'[x] = (V[x] - V[y] + 256) % 256]_vars

\* 8015 has subtracted 1 from 1
C17_Witness ==
    /\ Running /\ phase = "poll" /\ operation = \h8015
    /\ V[0] = 0 /\ V[1] = 1 /\ V[15] = 1

\* C18: 8xy6 leaves VF = bit 0 of Vy and, for x # 0xF, Vx = Vy >> 1; 8xyE
\* leaves VF = bit 7 of Vy and, for x # 0xF, Vx = (Vy << 1) mod 256; Vy being
\* the value before the instruction.
C18_ShiftsTakeVy ==
    [][/\ IsAlu(6)
            => /\ V'[15] = V[y] % 2
               /\ x # 15 => V'[x] = V[y] \div 2
       /\ IsAlu(14)
            => /\ V'[15] = V[y] \div 128
               /\ x # 15 => V'[x] = (V[y] * 2) % 256]_vars

\* 801E has shifted V1 = 255 left into V0, which held 1
C18_Witness ==
    /\ Running /\ phase = "poll" /\ operation = \h801E
    /\ V[0] = 254 /\ V[1] = 255 /\ V[15] = 1

\* C19: 8xy1, 8xy2 and 8xy3 leave VF = 0 for every x and y; 8xy0 leaves VF
\* as it was when x # 0xF.
C19_LogicClearsFlag ==
    [][/\ (Executing /\ family = 8 /\ n \in {1, 2, 3}) => V'[15] = 0
       /\ (IsAlu(0) /\ x # 15) => V'[15] = V[15]]_vars

\* 8FF3 has XORed VF = 255 with itself
C19_Witness ==
    /\ Running /\ phase = "poll" /\ operation = \h8FF3
    /\ V[15] = 0 /\ printed = {}

\* the cells the sprite of a draw covers with a 1 bit: row i of the sprite
\* is RAM[I + i], its bit 7 - j goes to column Vx mod 64 + j of row
\* Vy mod 32 + i, and what falls beyond column 63 or row 31 is dropped
C20_Cells ==
    { << (V[x] % WIDTH) + p[2], (V[y] % HEIGHT) + p[1] >> :
        p \in { q \in (0..(n - 1)) \X (0..7) :
                  /\ (V[x] % WIDTH) + q[2] < WIDTH
                  /\ (V[y] % HEIGHT) + q[1] < HEIGHT
                  /\ Bit(Peek(RAM, I + q[1]), 7 - q[2]) = 1 } }

\* C20: a draw that does not fault flips exactly the cells its sprite covers,
\* placed by Vx and Vy as they are before the instruction, and leaves VF = 1
\* when one of them was lit and VF = 0 otherwise.
C20_DrawBlit ==
    [][(Executing /\ family = 13 /\ status' = "running")
        => /\ fb' = (fb \ C20_Cells) \cup (C20_Cells \ fb)
           /\ V'[15] = IF C20_Cells \cap fb # {} THEN 1 ELSE 0]_vars

\* the draw about to execute repeats the draw before it
RepeatsDraw ==
    /\ Executing /\ family = 13
    /\ last_draw.live
    /\ last_draw.I = I /\ last_draw.n = n
    /\ last_draw.bytes = [i \in 0..(n - 1) |-> Peek(RAM, I + i)]
    /\ last_draw.col = V[x] % WIDTH /\ last_draw.row = V[y] % HEIGHT

\* C21: the second of two successive draws of the same sprite bytes (same I,
\* same n) at the same coordinates leaves the framebuffer as it was before
\* the first of them.
C21_DoubleDrawRestores ==
    [][(RepeatsDraw /\ status' = "running") => fb' = last_draw.fb]_vars

\* a sprite that hangs over the right and the bottom edge has been drawn
\* twice; so has a glyph over a part of another one
C21_Witness ==
    /\ Running /\ phase = "poll" /\ operation = \hD015 /\ last_draw.live
    /\ last_draw.fb # fb
    /\ \/ last_draw.col = WIDTH - 2 /\ last_draw.row = HEIGHT - 2 /\ fb = {}
       \/ last_draw.col = 1 /\ fb # {}

\* C22 as stated: the second of two such draws leaves VF = 1 when a cell
\* the sprite covers was lit before the first draw (the first draw has
\* turned such a cell off).
C22_SecondFlagIfLitBefore ==
    [][(RepeatsDraw /\ status' = "running" /\ last_draw.fb \ fb # {})
          => V'[15] = 1]_vars

\* C22, amended: the second of two such draws leaves VF = 1 exactly when the
\* first draw has lit a cell, that is when some cell the sprite covers was
\* unlit before the first draw.
C22_SecondFlagIffFirstLit ==
    [][(RepeatsDraw /\ status' = "running")
          => V'[15] = IF fb \ last_draw.fb # {} THEN 1 ELSE 0]_vars

\* the third of three draws of a glyph: the second one found every cell of
\* the glyph lit and turned it off, the third one collides with nothing
C22_Witness ==
    /\ Running /\ phase = "poll" /\ operation = \hD005 /\ last_draw.live
    /\ last_draw.fb = {} /\ fb # {} /\ V[15] = 0 /\ PC = program_base + 6

\* C23: a draw with a sprite row on the screen whose address I + row is at or
\* beyond 4096 ends the run with the memory fault and a failure status, and
\* makes no access outside RAM.
C23_DrawBeyondMemoryFaults ==
    [][(Executing /\ family = 13
          /\ \E i \in 0..(n - 1) :
                (V[y] % HEIGHT) + i < HEIGHT /\ I + i >= MAX_ADDR)
          => /\ status' = "exited" /\ ret' = 1 /\ exit_by' = "memory"
             /\ wild' = wild /\ oob' = oob]_vars

\* D001 has faulted on its row 0 at I = 4096
C23_Witness ==
    /\ status = "exited" /\ exit_by = "memory" /\ ret = 1
    /\ operation = \hD001 /\ I = MAX_ADDR /\ wild = 0

\* C24: a word for which the switches have no case is reported and nothing
\* else: the run goes on, PC stays at the address after the word, and the
\* registers, I, memory, the call stack, the timers, the key latch and the
\* framebuffer are left as they were.
C24_UnknownWordIsNoOp ==
    [][(Executing /\ Unknown)
          => /\ printed' = printed \cup {operation}
             /\ status' = "running"
             /\ PC = U16(at + 2) /\ PC' = PC
             /\ V' = V /\ I' = I /\ RAM' = RAM
             /\ SP' = SP /\ STACK' = STACK
             /\ delay' = delay /\ sound' = sound
             /\ delay_accum_mc' = delay_accum_mc
             /\ sound_accum_mc' = sound_accum_mc
             /\ key_pressed' = key_pressed /\ halt' = halt /\ v_key' = v_key
             /\ fb' = fb]_vars

\* 8008, E000 and F0FF have been reported and the 5011 after them executes
C24_Witness ==
    /\ Running /\ operation = \h5011 /\ phase = "poll"
    /\ printed = {\h8008, \hE000, \hF0FF}

\* C25: a run that has ended has ended by a quit event or by a fatal fault.
C25_EndsByQuitOrFault ==
    status = "exited"
        => exit_by \in {"quit", "load", "underflow", "overflow", "memory"}

IsCopy(low) == Executing /\ family = 15 /\ kk = low /\ I + x < MAX_ADDR

\* C26: with I .. I + x inside memory, Fx55 stores V0 .. Vx at I .. I + x and
\* changes no other byte and no register, Fx65 loads V0 .. Vx from I .. I + x
\* and changes no other register and no byte, and both leave I increased
\* by x + 1: a load from where a dump stored brings V0 .. Vx back.
C26_DumpAndLoad ==
    [][/\ IsCopy(\h55)
            => /\ \A a \in 0..(MAX_ADDR - 1) :
                    Peek(RAM', a) = IF a \in I..(I + x) THEN V[a - I]
                                                        ELSE Peek(RAM, a)
               /\ V' = V
               /\ I' = I + x + 1
       /\ IsCopy(\h65)
            => /\ \A r \in 0..(NUM_REGS - 1) :
                    V'[r] = IF r <= x THEN Peek(RAM, I + r) ELSE V[r]
               /\ RAM' = RAM
               /\ I' = I + x + 1]_vars

\* V0 = 7 and V1 = 0x12 were dumped at 0x300, zeroed and loaded back
C26_Witness ==
    /\ Running /\ phase = "poll" /\ operation = \hF165
    /\ V[0] = 7 /\ V[1] = \h12 /\ I = \h302
    /\ Peek(RAM, \h300) = 7 /\ Peek(RAM, \h301) = \h12

\* the run of the file with these bytes has left the loop of line 259
RanToEnd(bytes) ==
    /\ status = "exited" /\ exit_by = "end"
    /\ program_end = program_base + Len(bytes) - 1
    /\ \A i \in 1..Len(bytes) : Peek(RAM, program_base + i - 1) = bytes[i]

Row0Cols0To3 == { << c, 0 >> : c \in 0..3 }

\* C27 as stated: the program A2 02 F0 D0 05, run to its end, has lit row 0,
\* columns 0 to 3, and VF is 0.
C27_SpriteInLineDraws ==
    RanToEnd(SpriteInLine) => Row0Cols0To3 \subseteq fb /\ V[15] = 0

\* C27: the program A2 04 D0 01 F0 (A204, D001, the sprite byte 0xF0 at 0x204),
\* run to its end, has lit row 0, columns 0 to 3, and nothing else, and VF
\* is 0; the program A2 02 F0 D0 05 is fetched as A202, F0D0, 0500, of which
\* the last two are unknown words, and has lit nothing.
C27_SpriteAtEndDraws ==
    /\ RanToEnd(SpriteAtEnd) => fb = Row0Cols0To3 /\ V[15] = 0
    /\ RanToEnd(SpriteInLine)
         => fb = {} /\ V[15] = 0 /\ printed = {\hF0D0, \h0500}

C27_Witness ==
    /\ RanToEnd(SpriteAtEnd) /\ fb = Row0Cols0To3 /\ I = \h204
    /\ printed = {\hF000}

\* C28: an instruction that faults (a return on an empty stack, a call on a
\* full one, a draw past the memory) leaves the registers, I, the memory,
\* the call stack and the framebuffer as they were before it.
C28_FaultAppliesNothing ==
    [][(Executing /\ status' = "exited"
            /\ exit_by' \in {"underflow", "overflow", "memory"})
        => /\ V' = V /\ I' = I /\ RAM' = RAM
           /\ STACK' = STACK /\ SP' = SP
           /\ fb' = fb]_vars

\* C29: Fx15 sets delay to Vx and its accumulator to zero and changes neither
\* sound nor the accumulator of sound; Fx18 sets sound to Vx and its
\* accumulator to zero and changes neither delay nor the accumulator of
\* delay; both whatever Vx is.
C29_TimerWriteResetsOwnAccum ==
    [][/\ (Executing /\ family = 15 /\ kk = \h15)
            => /\ delay' = V[x] /\ delay_accum_mc' = 0
               /\ sound' = sound /\ sound_accum_mc' = sound_accum_mc
       /\ (Executing /\ family = 15 /\ kk = \h18)
            => /\ sound' = V[x] /\ sound_accum_mc' = 0
               /\ delay' = delay /\ delay_accum_mc' = delay_accum_mc]_vars

\* the second write of delay, two ticks after the first, with sound running
C29_Witness ==
    /\ Running /\ phase = "poll" /\ operation = \hF015
    /\ PC = program_base + 8
    /\ delay = 2 /\ delay_accum_mc = 0
    /\ sound = 2 /\ sound_accum_mc = FRAME_DURATION

\* C30: a BCD store with I, I + 1 and I + 2 inside the memory leaves there
\* three bytes, each in 0 .. 9, that are the hundreds, tens and ones of Vx
\* (100 * RAM[I] + 10 * RAM[I + 1] + RAM[I + 2] = Vx), changes no other
\* byte, and leaves I and every register as they were.
C30_BcdDigits ==
    [][(Executing /\ family = 15 /\ kk = \h33 /\ I + 2 < MAX_ADDR)
        => /\ \A i \in 0..2 : Peek(RAM', I + i) \in 0..9
           /\ 100 * Peek(RAM', I) + 10 * Peek(RAM', I + 1)
                + Peek(RAM', I + 2) = V[x]
           /\ \A a \in 0..(MAX_ADDR - 1) \ (I..(I + 2)) :
                 Peek(RAM', a) = Peek(RAM, a)
           /\ I' = I /\ V' = V
           /\ status' = "running"]_vars

\* 255 stored as 2, 5, 5 in the last three bytes of the memory
C30_Witness ==
    /\ Running /\ phase = "poll" /\ operation = \hF033
    /\ V[0] = 255 /\ I = MAX_ADDR - 3
    /\ Peek(RAM, I) = 2 /\ Peek(RAM, I + 1) = 5 /\ Peek(RAM, I + 2) = 5
    /\ wild = 0

IsKeyTest == Executing /\ family = 14 /\ kk \in {\h9E, \hA1}

\* C31: Ex9E and ExA1 read one of the 16 slots of key_pressed, whatever byte
\* Vx holds: the index is in 0 .. 15, the read is inside the array, and the
\* array is not changed.
C31_KeyTestInsideLatch ==
    [][IsKeyTest
        => /\ V[x] \in 0..(NUM_KEYS - 1)
           /\ wild' = wild /\ status' = "running"
           /\ key_pressed' = key_pressed]_vars

\* load returned an address: program_end is not 0 - 1
Loaded == status # "init" /\ program_end # U16(0 - 1)

\* C32: after a successful load, whenever the loop fetches, PC is at most
\* program_end, which is at most 4094, so that both bytes of the word are
\* read inside the memory.
C32_FetchInsideMemory ==
    [][(Boundary /\ ~Skipping /\ LoopGuard /\ Loaded)
        => /\ program_end <= MAX_ADDR - 2
           /\ PC + 1 <= MAX_ADDR - 1
           /\ operation' = Peek(RAM, PC) * 256 + Peek(RAM, PC + 1)
           /\ wild' = wild /\ status' = "running"]_vars

\* the word at 4094 and 4095, the last of the largest program, was fetched
C32_Witness ==
    /\ Running /\ phase = "exec" /\ Loaded
    /\ at = MAX_ADDR - 2 /\ program_end = MAX_ADDR - 2
    /\ wild = 0

\* C33: once Fx0A has executed, the machine stays in the loop, halted, until
\* the key-up of a key pressed since then ends the wait, also when the Fx0A
\* is the last instruction of the program: a run that has ended while it
\* was waiting was ended by the user's quit.
C33_WaitOutlastsProgramEnd ==
    (status = "exited" /\ halt) => exit_by = "quit"

\* C34: Fx0A leaves all 16 slots of key_pressed not pressed, whatever keys
\* are held; the key-up of a key with no key-down since the wait began
\* leaves the machine halted; and the step that ends the wait is the key-up
\* of a key whose key-down came after the wait began, which goes to Vx.
C34_OnlyFreshKeyEndsWait ==
    [][/\ (Executing /\ family = 15 /\ kk = \h0A)
            => /\ halt'
               /\ \A k \in 0..(NUM_KEYS - 1) : ~key_pressed'[k]
       /\ \A code \in 0..(NUM_KEYS - 1) :
            (halt /\ held[code] /\ ~held'[code] /\ code \notin downs)
                => halt'
       /\ (halt /\ ~halt')
            => \E code \in downs :
                  /\ held[code] /\ ~held'[code]
                  /\ V' = [V EXCEPT ![v_key] = code]]_vars

\* key 1 was down when the F00A executed and is still down; the wait has
\* ended with key 0, pressed and released since
C34_Witness ==
    /\ Running /\ ~halt /\ phase = "poll" /\ operation = \hF00A
    /\ V[0] = 0 /\ held[1] /\ ~key_pressed[1] /\ ~held[0]

\* the cells a sprite of n rows at I covers with its first bit at cx, cy
C35_Cells(cx, cy) ==
    { << cx + p[2], cy + p[1] >> :
        p \in { q \in (0..(n - 1)) \X (0..7) :
                  /\ cx + q[2] < WIDTH
                  /\ cy + q[1] < HEIGHT
                  /\ Bit(Peek(RAM, I + q[1]), 7 - q[2]) = 1 } }

\* C35: a draw with x = 0xF starts at column 0 and a draw with y = 0xF at
\* row 0 (the other coordinate being Vy mod 32, Vx mod 64), whatever VF
\* held before the instruction.
C35_DrawByFlagStartsAtZero ==
    [][(Executing /\ family = 13 /\ (x = 15 \/ y = 15)
            /\ status' = "running")
        => LET cx == IF x = 15 THEN 0 ELSE V[x] % WIDTH
               cy == IF y = 15 THEN 0 ELSE V[y] % HEIGHT
               cells == C35_Cells(cx, cy)
           IN fb' = (fb \ cells) \cup (cells \ fb)]_vars

\* 6F 03 DF 05 has drawn the glyph of 0 at column 0, not at column 3
C35_Witness ==
    /\ Running /\ phase = "poll" /\ operation = \hDF05
    /\ Peek(RAM, program_base) = \h6F /\ Peek(RAM, program_base + 1) = 3
    /\ << 0, 0 >> \in fb /\ << 3, 0 >> \in fb /\ << 4, 0 >> \notin fb
    /\ V[15] = 0

\* C36: load accepts (returns an address for) a file that is opened and
\* read whole exactly when all its bytes lie below 4096, that is when
\* 0x200 + its size is at most 4096.
C36_LoaderAcceptsWhatFits ==
    \A f \in Files :
        (load(f, RAM, program_base, TRUE, f.size).value # 0)
            <=> (program_base + f.size <= MAX_ADDR)

\* a timer written with w.n counts down by one every 9 updates, the update
\* of the tick of the write being the first, and its accumulator holds
\* 2000 us for each update since the write or the decrement
C37_NineTicks(timer, accum, w) ==
    /\ w.ticks <= 9 * w.n
    /\ timer = w.n - (w.ticks \div 9)
    /\ accum = FRAME_DURATION * (w.ticks % 9)

\* C37: every tick credits 2000 us to the accumulator of a timer that is
\* > 0 and a decrement restarts it from 0: a timer written with n > 0 and
\* not rewritten is decremented once every 9 ticks, the tick of the write
\* counted, and is 0 after 9 * n ticks.
C37_DecrementEveryNineTicks ==
    /\ C37_NineTicks(sound, sound_accum_mc, written.sound)
    /\ C37_NineTicks(delay, delay_accum_mc, written.delay)

\* sound was written with 2 and has reached 0 in the 18th update
C37_Witness ==
    /\ Boundary /\ written.sound = [n |-> 2, ticks |-> 18]
    /\ sound = 0 /\ tone_offs = 1

\* C38: at the end of every driver tick the accumulator of each timer is
\* below TIMER_TICK, and it is 0 when its timer is 0.
C38_AccumBelowTick ==
    Boundary
        => /\ sound_accum_mc < TIMER_TICK /\ delay_accum_mc < TIMER_TICK
           /\ sound = 0 => sound_accum_mc = 0
           /\ delay = 0 => delay_accum_mc = 0

\* sound has counted down to 0 and delay is one update from its decrement
C38_Witness ==
    /\ Boundary /\ written.sound.n > 0
    /\ sound = 0 /\ sound_accum_mc = 0
    /\ delay = 1 /\ delay_accum_mc = 8 * FRAME_DURATION

\* C39: a word 5xyN with N other than 0 skips the next word exactly when
\* Vx = Vy and a word 9xyN exactly when Vx and Vy differ, as 5xy0 and 9xy0
\* do; it changes nothing else and is not reported.
C39_LowNibbleIgnored ==
    [][(Executing /\ family \in {5, 9} /\ n # 0)
        => /\ PC' = U16(PC + (IF (V[x] = V[y]) <=> (family = 5)
                                THEN 2 ELSE 0))
           /\ printed' = printed
           /\ status' = "running"
           /\ V' = V /\ I' = I /\ RAM' = RAM /\ SP' = SP /\ STACK' = STACK
           /\ fb' = fb]_vars

\* 5011 on different registers has not skipped the 9013, which has skipped
\* the last word; nothing was reported
C39_Witness ==
    /\ Running /\ phase = "poll" /\ operation = \h9013
    /\ V[0] = 5 /\ V[1] = 0
    /\ at = program_base + 4 /\ PC = program_base + 8
    /\ printed = {}

====
